---- MODULE Spec2Model ----
(***************************************************************************)
(* Verification model of the audit-trail library: the process-wide         *)
(* lifecycle manager of env.go (InitWithOptions / Record / Shutdown and     *)
(* the background consumer goroutine) and the consume-and-persist pipeline  *)
(* of pubsub.go / gcp_pubsub.go / audittrail.go.                            *)
(***************************************************************************)
EXTENDS Naturals, Integers, Sequences, FiniteSets, Bags, TLC

(***************************************************************************)
(* Bounds of the model.                                                     *)
(***************************************************************************)
NumCallers == 2
MaxCycles == 2
NumMsgs == 2
MaxDeliveries == 2
MaxApplications == 2
MaxRecords == 2
MaxNameLen == 2
MaxRequests == 2

Callers == 1..NumCallers
Cycles == 1..MaxCycles
Msgs == 1..NumMsgs
nil == 0

VARIABLES
    runtime,    \* the flags and cached references of the package variable `runtime`
    mu,         \* runtime.mu: 0 when free, else the caller holding it
    wg,         \* runtime.wg: the counter of the wait group
    pc,         \* pc[t]: where caller t is in InitWithOptions, Record or Shutdown
    ret,        \* the return executed by the last step, NoReturn if it was no return
    frame,      \* frame[t]: the local variables of the call caller t is in
    db,         \* db[c]: the *sql.DB opened by the c-th successful sql.Open
    client,     \* client[c]: the *pubsub.Client created on the same construction
    consumer,   \* consumer[c]: the goroutine running consumer.Run(runCtx)
    runCtx,     \* runCtx[c]: the context handed to consumer.Run
    nextCycle,  \* number of the next construction that opens a database handle
    msgs,       \* msgs[m]: message m of the subscription: data, state, deliveries
    callback,   \* callback[m]: the locals and effects of the last delivery of m
    sub,        \* the subscription served by Consumer.Run: its ctx and its result
    auditTable, \* the rows the INSERTs of AuditTrail.Record have written: a bag
    call        \* the call of the one function a specification is about:
                \* its arguments, how far it is and what it has returned

lifecycleVars == <<runtime, mu, wg, pc, ret, frame, db, client, consumer, runCtx, nextCycle>>
pipelineVars == <<msgs, callback, sub, auditTable>>

(***************************************************************************)
(* var runtime struct {...}: zero value of the package variable.  The      *)
(* field options only selects the OnPublishError callback of Record, which *)
(* is not represented.                                                      *)
(***************************************************************************)
ZeroRuntime ==
    [initialized |-> FALSE, initializing |-> FALSE, recorder |-> nil,
     cancel |-> nil, db |-> nil, pubsub |-> nil]

ZeroFrame ==
    [id |-> nil, err |-> "none", line |-> 0, recorder |-> nil, cancel |-> nil,
     db |-> nil, client |-> nil]

\* no call has returned yet
NoReturn == [val |-> "none", at |-> 0]

LifecycleInit ==
    /\ runtime = ZeroRuntime
    /\ mu = 0
    /\ wg = 0
    /\ pc = [t \in Callers |-> "idle"]
    /\ ret = NoReturn
    /\ frame = [t \in Callers |-> ZeroFrame]
    /\ db = [c \in Cycles |-> "none"]
    /\ client = [c \in Cycles |-> "none"]
    /\ consumer = [c \in Cycles |-> "none"]
    /\ runCtx = [c \in Cycles |-> "none"]
    /\ nextCycle = 1

(***************************************************************************)
(* Table names are sequences of characters; isSafeIdentifier is the        *)
(* regular expression ^[a-zA-Z0-9_]+$ of audittrail.go.                     *)
(***************************************************************************)
SafeChars == {"a", "Z", "0", "_"}
UnsafeChars == {" ", ";"}

\* isSafeIdentifier whose pattern is not anchored at the end
isSafeIdentifierUnanchored(name) ==
    /\ Len(name) > 0
    /\ name[1] \in SafeChars

isSafeIdentifier(name) ==
    /\ Len(name) > 0
    /\ \A i \in 1..Len(name) : name[i] \in SafeChars

\* the table names the configuration can yield in InitWithOptions: getConfig
\* trims and falls back to the default, so the name is never empty
ConfiguredTables == {<<"a", "_", "0">>, <<"a", " ", "Z">>, <<"a", ";">>}

\* NewAuditTrail(cfg): TRUE when construction fails
NewAuditTrailFails(dbHandle, table) ==
    \/ dbHandle = nil
    \/ ~isSafeIdentifier(IF table = <<>> THEN <<"a", "_", "a">> ELSE table)

\* NewPubSubRecorder(publisher, now): TRUE when construction fails
NewPubSubRecorderFails(publisher) == publisher = nil

\* NewConsumer(audit, subscriber, onError): TRUE when construction fails
NewConsumerFails(audit, subscriber) == audit = nil \/ subscriber = nil

(***************************************************************************)
(* Helpers for returning from a call.                                       *)
(***************************************************************************)

\* the call of caller t returns value at the return statement of line `at`
Return(t, value, at) ==
    /\ pc' = [pc EXCEPT ![t] = "idle"]
    /\ ret' = [val |-> value, at |-> at]
    /\ frame' = [frame EXCEPT ![t] = ZeroFrame]

\* caller t moves on to label; the step returns nothing
Goto(t, label) ==
    /\ pc' = [pc EXCEPT ![t] = label]
    /\ ret' = NoReturn

(***************************************************************************)
(* InitWithOptions, env.go:83-189.                                          *)
(***************************************************************************)
\* InitCheck without the `if runtime.initialized` fast path of lines 89-92
InitCheckNoFastPath(t) ==
    /\ pc[t] = "idle"
    /\ mu = 0
    /\ mu' = 0
    /\ IF runtime.initializing
       THEN /\ Return(t, "errInProgress", 95)
            /\ UNCHANGED runtime
       ELSE /\ runtime' = [runtime EXCEPT !.initializing = TRUE]
            /\ Goto(t, "init_open")
            /\ UNCHANGED frame
    /\ UNCHANGED <<wg, db, client, consumer, runCtx, nextCycle>>
    /\ UNCHANGED <<pipelineVars, call>>

\* lines 88-98: under runtime.mu, the two guards, then initializing = true
InitCheck(t) ==
    /\ pc[t] = "idle"
    /\ mu = 0
    /\ mu' = 0
    /\ IF runtime.initialized
       THEN /\ Return(t, "nil", 91)
            /\ UNCHANGED runtime
       ELSE IF runtime.initializing
       THEN /\ Return(t, "errInProgress", 95)
            /\ UNCHANGED runtime
       ELSE /\ runtime' = [runtime EXCEPT !.initializing = TRUE]
            /\ Goto(t, "init_open")
            /\ UNCHANGED frame
    /\ UNCHANGED <<wg, db, client, consumer, runCtx, nextCycle>>
    /\ UNCHANGED <<pipelineVars, call>>

\* lines 121-140: sql.Open, NewAuditTrail and pubsub.NewClient, all on values
\* local to the call; a failure after sql.Open closes the handle
InitConstruct(t) ==
    /\ pc[t] = "init_open"
    /\ \/ /\ frame' = [frame EXCEPT ![t].err = "errOpen", ![t].line = 123]
          /\ Goto(t, "init_defer")
          /\ UNCHANGED <<db, client, nextCycle>>
       \/ /\ nextCycle <= MaxCycles
          /\ nextCycle' = nextCycle + 1
          /\ \E table \in ConfiguredTables :
                IF NewAuditTrailFails(nextCycle, table)
                THEN /\ db' = [db EXCEPT ![nextCycle] = "closed"]
                     /\ frame' = [frame EXCEPT ![t].err = "errTable",
                                               ![t].line = 133]
                     /\ Goto(t, "init_defer")
                     /\ UNCHANGED client
                ELSE \/ /\ db' = [db EXCEPT ![nextCycle] = "open"]
                        /\ client' = [client EXCEPT ![nextCycle] = "open"]
                        /\ frame' = [frame EXCEPT ![t].id = nextCycle]
                        /\ Goto(t, "init_start")
                     \/ /\ db' = [db EXCEPT ![nextCycle] = "closed"]
                        /\ frame' = [frame EXCEPT ![t].err = "errClient",
                                                  ![t].line = 139]
                        /\ Goto(t, "init_defer")
                        /\ UNCHANGED client
    /\ UNCHANGED <<runtime, mu, wg, consumer, runCtx>>
    /\ UNCHANGED <<pipelineVars, call>>

\* lines 142-175: recorder and consumer are constructed, then
\* context.WithCancel, runtime.wg.Add(1) and the go statement
InitStart(t) ==
    /\ pc[t] = "init_start"
    /\ LET id == frame[t].id IN
       IF NewPubSubRecorderFails(id)
       THEN /\ client' = [client EXCEPT ![id] = "closed"]
            /\ db' = [db EXCEPT ![id] = "closed"]
            /\ frame' = [frame EXCEPT ![t].err = "errRecorder", ![t].line = 146]
            /\ Goto(t, "init_defer")
            /\ UNCHANGED <<wg, consumer, runCtx>>
       ELSE IF NewConsumerFails(id, id)
       THEN /\ client' = [client EXCEPT ![id] = "closed"]
            /\ db' = [db EXCEPT ![id] = "closed"]
            /\ frame' = [frame EXCEPT ![t].err = "errConsumer", ![t].line = 161]
            /\ Goto(t, "init_defer")
            /\ UNCHANGED <<wg, consumer, runCtx>>
       ELSE /\ runCtx' = [runCtx EXCEPT ![id] = "active"]
            /\ wg' = wg + 1
            /\ consumer' = [consumer EXCEPT ![id] = "running"]
            /\ Goto(t, "init_publish")
            /\ UNCHANGED <<db, client, frame>>
    /\ UNCHANGED <<runtime, mu, nextCycle>>
    /\ UNCHANGED <<pipelineVars, call>>

\* lines 177-188: under runtime.mu the references are stored; ok = true,
\* return nil
InitPublish(t) ==
    /\ pc[t] = "init_publish"
    /\ mu = 0
    /\ mu' = 0
    /\ runtime' = [initialized |-> TRUE, initializing |-> FALSE,
                   recorder |-> frame[t].id, cancel |-> frame[t].id,
                   db |-> frame[t].id, pubsub |-> frame[t].id]
    /\ Return(t, "nil", 188)
    /\ UNCHANGED <<wg, db, client, consumer, runCtx, nextCycle>>
    /\ UNCHANGED <<pipelineVars, call>>

\* lines 100-107: the deferred function of a failed construction: under
\* runtime.mu, initializing = false; then the error is returned
InitDefer(t) ==
    /\ pc[t] = "init_defer"
    /\ mu = 0
    /\ mu' = 0
    /\ runtime' = [runtime EXCEPT !.initializing = FALSE]
    /\ Return(t, frame[t].err, frame[t].line)
    /\ UNCHANGED <<wg, db, client, consumer, runCtx, nextCycle>>
    /\ UNCHANGED <<pipelineVars, call>>

(***************************************************************************)
(* Entries.  Strings that the code trims are sequences of characters.      *)
(***************************************************************************)
RECURSIVE TrimLeft(_)
TrimLeft(s) == IF s # <<>> /\ Head(s) = " " THEN TrimLeft(Tail(s)) ELSE s

RECURSIVE TrimRight(_)
TrimRight(s) ==
    IF s # <<>> /\ s[Len(s)] = " " THEN TrimRight(SubSeq(s, 1, Len(s) - 1)) ELSE s

\* strings.TrimSpace
TrimSpace(s) == TrimRight(TrimLeft(s))

\* a time.Time: an instant and a location; the zero time is instant 0 in UTC
ZeroTime == [instant |-> 0, loc |-> "UTC"]

\* t.IsZero(): the instant alone decides
IsZero(t) == t.instant = 0

\* t.UTC(): the same instant with the location set to UTC
UTC(t) == [t EXCEPT !.loc = "UTC"]

\* the zero value Entry{}; RequestID stands for the fields normalizeEntry
\* never looks at
ZeroEntry == [ID |-> "", RequestID |-> <<>>, Action |-> <<>>, CreatedDate |-> ZeroTime]

EntryActions == {<<>>, <<" ">>, <<"a">>, <<" ", "a">>}
EntryIDs == {"", "id1"}
EntryDates == {ZeroTime, [instant |-> 1, loc |-> "Local"]}
EntryRequestIDs == {<<>>, <<"r">>}
Entries == [ID : EntryIDs, RequestID : EntryRequestIDs, Action : EntryActions,
            CreatedDate : EntryDates]

\* normalizeEntry that tests the action without trimming it
normalizeEntryNoTrim(entry, fresh, clock) ==
    IF entry.Action = <<>>
    THEN [entry |-> ZeroEntry, err |-> "errAction", newIDs |-> 0, nows |-> 0]
    ELSE [entry |-> [entry EXCEPT !.ID = IF @ = "" THEN fresh ELSE @,
                                  !.CreatedDate = IF IsZero(@) THEN UTC(clock) ELSE @],
          err |-> "nil",
          newIDs |-> IF entry.ID = "" THEN 1 ELSE 0,
          nows |-> IF IsZero(entry.CreatedDate) THEN 1 ELSE 0]

\* normalizeEntry that reads the clock whatever CreatedDate is
normalizeEntryRestamps(entry, fresh, clock) ==
    IF TrimSpace(entry.Action) = <<>>
    THEN [entry |-> ZeroEntry, err |-> "errAction", newIDs |-> 0, nows |-> 0]
    ELSE [entry |-> [entry EXCEPT !.ID = IF @ = "" THEN fresh ELSE @,
                                  !.CreatedDate = UTC(clock)],
          err |-> "nil",
          newIDs |-> IF entry.ID = "" THEN 1 ELSE 0,
          nows |-> 1]

\* normalizeEntry(entry, now): newID() yields fresh, now() yields clock;
\* newIDs and nows count the calls of newID and of now
normalizeEntry(entry, fresh, clock) ==
    IF TrimSpace(entry.Action) = <<>>
    THEN [entry |-> ZeroEntry, err |-> "errAction", newIDs |-> 0, nows |-> 0]
    ELSE [entry |-> [entry EXCEPT !.ID = IF @ = "" THEN fresh ELSE @,
                                  !.CreatedDate = IF IsZero(@) THEN UTC(clock) ELSE @],
          err |-> "nil",
          newIDs |-> IF entry.ID = "" THEN 1 ELSE 0,
          nows |-> IF IsZero(entry.CreatedDate) THEN 1 ELSE 0]

FreshID == "gen"
ClockNow == [instant |-> 2, loc |-> "Local"]

\* what newID() can return: 32 hexadecimal digits, or the decimal digits of
\* the clock when rand.Read fails; never the empty string
FreshIDs == {"gen", "gen2"}

\* what time.Now() can return: never the zero time
ClockReadings == {ClockNow, [instant |-> 3, loc |-> "UTC"]}

\* no function is being checked on its own
CallOff == call = [fn |-> "none"]

(***************************************************************************)
(* normalizeEntry on its own: applied to an entry, then to what it returned *)
(***************************************************************************)
NormalizeInit ==
    call \in [fn : {"normalizeEntry"}, input : Entries, applied : {0},
              fresh : {<<>>}, clock : {<<>>}, out : {<<>>}]

\* the argument of the i-th application
NormalizeArg(i) == IF i = 1 THEN call.input ELSE call.out[i - 1].entry

NormalizeApply ==
    /\ call.fn = "normalizeEntry"
    /\ call.applied < MaxApplications
    /\ \E fresh \in FreshIDs, clock \in ClockReadings :
          call' = [call EXCEPT
                     !.applied = @ + 1,
                     !.fresh = Append(@, fresh),
                     !.clock = Append(@, clock),
                     !.out = Append(@, normalizeEntry(NormalizeArg(call.applied + 1),
                                                      fresh, clock))]
    /\ UNCHANGED <<lifecycleVars, pipelineVars>>

(***************************************************************************)
(* PubSubRecorder.Record on its own (pubsub.go:167-173), in front of a      *)
(* Publisher that returns what it likes.                                    *)
(***************************************************************************)
PublishVerdicts == {"nil", "errPublish", "ctxErr"}

\* no Record call made yet, nothing handed to the Publisher
RecorderInit ==
    call = [fn |-> "Record", records |-> 0, stage |-> "idle", entry |-> ZeroEntry,
            handed |-> <<>>, publishes |-> 0, verdict |-> "none", ret |-> "none",
            published |-> {}]

\* PubSubRecorder.Record that hands the entry of its caller to Publish
RecorderRecordPublishesRaw ==
    /\ call.fn = "Record"
    /\ call.stage \in {"idle", "returned"}
    /\ call.records < MaxRecords
    /\ \E entry \in Entries, fresh \in FreshIDs, clock \in ClockReadings :
          LET res == normalizeEntry(entry, fresh, clock) IN
          IF res.err # "nil"
          THEN call' = [call EXCEPT !.records = @ + 1, !.stage = "returned",
                                    !.entry = entry, !.handed = <<>>,
                                    !.publishes = 0, !.verdict = "none",
                                    !.ret = res.err]
          ELSE call' = [call EXCEPT !.records = @ + 1, !.stage = "publish",
                                    !.entry = entry, !.handed = <<entry>>,
                                    !.publishes = 1, !.verdict = "none",
                                    !.ret = "none",
                                    !.published = @ \cup {entry}]
    /\ UNCHANGED <<lifecycleVars, pipelineVars>>

\* lines 168-172: normalizeEntry; its error is returned, otherwise
\* p.publisher.Publish(ctx, normalized) is called
RecorderRecord ==
    /\ call.fn = "Record"
    /\ call.stage \in {"idle", "returned"}
    /\ call.records < MaxRecords
    /\ \E entry \in Entries, fresh \in FreshIDs, clock \in ClockReadings :
          LET res == normalizeEntry(entry, fresh, clock) IN
          IF res.err # "nil"
          THEN call' = [call EXCEPT !.records = @ + 1, !.stage = "returned",
                                    !.entry = entry, !.handed = <<>>,
                                    !.publishes = 0, !.verdict = "none",
                                    !.ret = res.err]
          ELSE call' = [call EXCEPT !.records = @ + 1, !.stage = "publish",
                                    !.entry = entry, !.handed = <<res.entry>>,
                                    !.publishes = 1, !.verdict = "none",
                                    !.ret = "none",
                                    !.published = @ \cup {res.entry}]
    /\ UNCHANGED <<lifecycleVars, pipelineVars>>

\* PublisherReturn after which Record calls Publish again when it failed
PublisherReturnRetries ==
    /\ call.fn = "Record"
    /\ call.stage = "publish"
    /\ \E verdict \in PublishVerdicts :
          IF verdict # "nil" /\ call.publishes < 2
          THEN call' = [call EXCEPT !.publishes = @ + 1, !.verdict = verdict]
          ELSE call' = [call EXCEPT !.stage = "returned", !.verdict = verdict,
                                    !.ret = verdict]
    /\ UNCHANGED <<lifecycleVars, pipelineVars>>

\* line 172: Publish returns, and Record returns what Publish returned
PublisherReturn ==
    /\ call.fn = "Record"
    /\ call.stage = "publish"
    /\ \E verdict \in PublishVerdicts :
          call' = [call EXCEPT !.stage = "returned", !.verdict = verdict,
                               !.ret = verdict]
    /\ UNCHANGED <<lifecycleVars, pipelineVars>>

(***************************************************************************)
(* The store on its own: NewAuditTrail (audittrail.go:57-89), then one      *)
(* AuditTrail.Record (91-129) or one EnsureTable (131-150) on what it       *)
(* returned, in front of a database that rejects a statement whose table    *)
(* name is not an identifier.                                               *)
(***************************************************************************)
RECURSIVE SeqsUpTo(_, _)
SeqsUpTo(chars, n) ==
    IF n = 0 THEN {<<>>}
    ELSE LET shorter == SeqsUpTo(chars, n - 1) IN
         shorter \cup {Append(q, c) : q \in shorter, c \in chars}

TableNames == SeqsUpTo(SafeChars \cup UnsafeChars, MaxNameLen)

\* the table name "audit_trail" of line 65
DefaultTable == <<"a", "_", "a">>

\* Config.DB: nil, or a handle whose driver is of the postgres family or
\* not
StoreDBs == {"nil", "pq", "mysql"}

PlaceholderStyles == {"PlaceholderUnknown", "PlaceholderQuestion", "PlaceholderDollar"}

\* detectPlaceholder(db), audittrail.go:231-246
detectPlaceholder(dbHandle) ==
    IF dbHandle = "nil" THEN "PlaceholderUnknown"
    ELSE IF dbHandle = "pq" THEN "PlaceholderDollar"
    ELSE "PlaceholderQuestion"

\* the nil *AuditTrail
NilAuditTrail == [db |-> "nil", table |-> <<>>, placeholder |-> "PlaceholderUnknown"]

\* NewAuditTrail(cfg), audittrail.go:57-89
NewAuditTrail(cfg) ==
    IF cfg.DB = "nil" THEN [audit |-> NilAuditTrail, err |-> "errNilDB"]
    ELSE LET table == IF cfg.TableName = <<>> THEN DefaultTable ELSE cfg.TableName
             detected == IF cfg.Placeholder = "PlaceholderUnknown"
                         THEN detectPlaceholder(cfg.DB) ELSE cfg.Placeholder
             placeholder == IF detected = "PlaceholderUnknown"
                            THEN "PlaceholderQuestion" ELSE detected
         IN  IF ~isSafeIdentifier(table)
             THEN [audit |-> NilAuditTrail, err |-> "errTable"]
             ELSE [audit |-> [db |-> cfg.DB, table |-> table,
                              placeholder |-> placeholder],
                   err |-> "nil"]

\* the values of the fields Request and Response: nil, a json.RawMessage, a
\* blank string, a string, a value json.Marshal encodes and one it cannot
NilValue == [t |-> "nil"]
RequestValues ==
    {NilValue, [t |-> "raw", s |-> <<"0">>], [t |-> "string", s |-> <<" ">>],
     [t |-> "string", s |-> <<"a">>], [t |-> "other", ok |-> TRUE],
     [t |-> "other", ok |-> FALSE]}

\* sql.NullString
NullString == [String |-> <<>>, Valid |-> FALSE]
ValidString(str) == [String |-> str, Valid |-> TRUE]

\* nullString(s), audittrail.go:212-217
nullString(str) == IF TrimSpace(str) = <<>> THEN NullString ELSE ValidString(str)

\* marshalJSONValue(v), audittrail.go:169-194; the encoding json.Marshal
\* produces for a value that is not a string is written <<"j">>
marshalJSONValue(v) ==
    IF v.t = "nil" THEN [value |-> NullString, err |-> "nil"]
    ELSE IF v.t = "raw" THEN [value |-> ValidString(v.s), err |-> "nil"]
    ELSE IF v.t = "string"
    THEN [value |-> IF TrimSpace(v.s) = <<>> THEN NullString ELSE ValidString(v.s),
          err |-> "nil"]
    ELSE IF v.ok THEN [value |-> ValidString(<<"j">>), err |-> "nil"]
    ELSE [value |-> NullString, err |-> "errMarshal"]

\* buildPlaceholders that numbers the dollar placeholders from zero
buildPlaceholdersFromZero(placeholder, n) ==
    IF placeholder = "PlaceholderDollar"
    THEN [i \in 1..n |-> <<"$", i - 1>>]
    ELSE [i \in 1..n |-> <<"?">>]

\* r.buildPlaceholders(n), audittrail.go:152-167: the parts that
\* strings.Join puts together, "$" followed by i+1 or "?"
buildPlaceholders(placeholder, n) ==
    IF placeholder = "PlaceholderDollar"
    THEN [i \in 1..n |-> <<"$", i>>]
    ELSE [i \in 1..n |-> <<"?">>]

\* the column list of the INSERT of lines 108-109
InsertColumns ==
    <<"log_audit_trail_id", "log_req_id", "log_action", "log_endpoint",
      "log_request", "log_response", "log_created_date", "log_created_by">>

\* the fields of an entry normalizeEntry does not look at, next to RequestID
ZeroExtra ==
    [Endpoint |-> <<>>, Request |-> NilValue, Response |-> NilValue,
     CreatedBy |-> <<>>]

EntryExtras ==
    { ZeroExtra }
    \cup [Endpoint : {<<" ">>, <<"a">>}, Request : RequestValues,
          Response : {NilValue, [t |-> "other", ok |-> FALSE]},
          CreatedBy : {<<"a">>}]
    \cup [Endpoint : {<<"a">>}, Request : {[t |-> "other", ok |-> TRUE]},
          Response : RequestValues, CreatedBy : {<<" ">>}]

\* what db.ExecContext returns for a statement on table: a name that is not
\* an identifier is a syntax error, any other statement may succeed or fail
ExecVerdicts(table) ==
    IF \E i \in 1..Len(table) : table[i] \in UnsafeChars
    THEN {"errSyntax"} ELSE IF table = <<>> THEN {"errSyntax"}
    ELSE {"nil", "errExec"}

NoStatement == [verb |-> "none"]

StoreInit ==
    call \in [fn : {"NewAuditTrail"},
              cfg : [DB : StoreDBs, TableName : TableNames,
                     Placeholder : PlaceholderStyles],
              stage : {"new"}, audit : {NilAuditTrail}, err : {"none"},
              entry : {ZeroEntry}, extra : {ZeroExtra},
              normalized : {ZeroEntry},
              execs : {0}, query : {NoStatement}, args : {<<>>},
              ret : {"none"}]

\* NewAuditTrail(cfg) is called
StoreNew ==
    /\ call.fn = "NewAuditTrail"
    /\ call.stage = "new"
    /\ LET res == NewAuditTrail(call.cfg) IN
       call' = [call EXCEPT !.stage = IF res.err = "nil" THEN "constructed"
                                     ELSE "failed",
                            !.audit = res.audit, !.err = res.err]
    /\ UNCHANGED <<lifecycleVars, pipelineVars>>

\* AuditTrail.Record(ctx, entry), audittrail.go:91-129
StoreRecord ==
    /\ call.fn = "NewAuditTrail"
    /\ call.stage = "constructed"
    /\ \E entry \in Entries, extra \in EntryExtras,
          fresh \in FreshIDs, clock \in ClockReadings :
          LET r == call.audit
              res == normalizeEntry(entry, fresh, clock)
              normalized == res.entry
              requestValue == marshalJSONValue(extra.Request)
              responseValue == marshalJSONValue(extra.Response)
              query == [verb |-> "INSERT", table |-> r.table,
                        columns |-> InsertColumns,
                        placeholders |-> buildPlaceholders(r.placeholder, 8)]
              args == <<normalized.ID, nullString(normalized.RequestID),
                        normalized.Action, nullString(extra.Endpoint),
                        requestValue.value, responseValue.value,
                        normalized.CreatedDate, nullString(extra.CreatedBy)>>
          IN  IF res.err # "nil"
              THEN call' = [call EXCEPT !.stage = "recorded", !.entry = entry,
                                        !.extra = extra,
                                        !.ret = res.err]
              ELSE IF requestValue.err # "nil"
              THEN call' = [call EXCEPT !.stage = "recorded", !.entry = entry,
                                        !.extra = extra,
                                        !.normalized = normalized,
                                        !.ret = "errMarshalRequest"]
              ELSE IF responseValue.err # "nil"
              THEN call' = [call EXCEPT !.stage = "recorded", !.entry = entry,
                                        !.extra = extra,
                                        !.normalized = normalized,
                                        !.ret = "errMarshalResponse"]
              ELSE \E verdict \in ExecVerdicts(query.table) :
                      call' = [call EXCEPT !.stage = "recorded", !.entry = entry,
                                           !.extra = extra,
                                           !.normalized = normalized,
                                           !.execs = @ + 1, !.query = query,
                                           !.args = args, !.ret = verdict]
    /\ UNCHANGED <<lifecycleVars, pipelineVars>>

\* AuditTrail.EnsureTable(ctx), audittrail.go:131-150
StoreEnsureTable ==
    /\ call.fn = "NewAuditTrail"
    /\ call.stage = "constructed"
    /\ LET query == [verb |-> "CREATE TABLE IF NOT EXISTS",
                     table |-> call.audit.table] IN
       \E verdict \in ExecVerdicts(query.table) :
          call' = [call EXCEPT !.stage = "ensured", !.execs = @ + 1,
                               !.query = query, !.ret = verdict]
    /\ UNCHANGED <<lifecycleVars, pipelineVars>>

(***************************************************************************)
(* Record, env.go:192-208, with PubSubRecorder.Record and                   *)
(* gcpPublisher.Publish behind runtime.recorder.                           *)
(***************************************************************************)
\* RecordRead that keeps runtime.mu while recorder.Record publishes
RecordReadHoldsLock(t) ==
    /\ pc[t] = "idle"
    /\ mu = 0
    /\ LET recorder == runtime.recorder IN
       IF recorder = nil
       THEN mu' = 0 /\ Return(t, "errNotInit", 198)
       ELSE /\ mu' = t
            /\ frame' = [frame EXCEPT ![t].recorder = recorder]
            /\ Goto(t, "rec_publish")
    /\ UNCHANGED <<runtime, wg, db, client, consumer, runCtx, nextCycle>>
    /\ UNCHANGED <<pipelineVars, call>>

\* lines 193-203: the recorder is read under runtime.mu; a nil recorder is
\* the "not initialized" error; otherwise recorder.Record normalizes the
\* entry and hands it to topic.Publish
RecordRead(t) ==
    /\ pc[t] = "idle"
    /\ mu = 0
    /\ mu' = 0
    /\ LET recorder == runtime.recorder IN
       IF recorder = nil
       THEN Return(t, "errNotInit", 198)
       ELSE \E action \in EntryActions :
               IF normalizeEntry([ZeroEntry EXCEPT !.Action = action],
                                 FreshID, ClockNow).err # "nil"
               THEN Return(t, "errValidation", 207)
               ELSE /\ frame' = [frame EXCEPT ![t].recorder = recorder]
                    /\ Goto(t, "rec_publish")
    /\ UNCHANGED <<runtime, wg, db, client, consumer, runCtx, nextCycle>>
    /\ UNCHANGED <<pipelineVars, call>>

\* gcpPublisher.Publish: result.Get(ctx) returns the transport's verdict; a
\* closed client cannot accept the message
PublishReturn(t) ==
    /\ pc[t] = "rec_publish"
    /\ \/ /\ client[frame[t].recorder] = "open"
          /\ Return(t, "nil", 207)
       \/ Return(t, "errPublish", 207)
    /\ UNCHANGED <<runtime, mu, wg, db, client, consumer, runCtx, nextCycle>>
    /\ UNCHANGED <<pipelineVars, call>>

(***************************************************************************)
(* Shutdown, env.go:211-254.                                                *)
(***************************************************************************)
\* lines 212-221: under runtime.mu
ShutdownCheck(t) ==
    /\ pc[t] = "idle"
    /\ mu = 0
    /\ mu' = 0
    /\ IF ~runtime.initialized
       THEN /\ runtime' = [runtime EXCEPT !.initializing = FALSE]
            /\ Return(t, "nil", 216)
       ELSE /\ frame' = [frame EXCEPT ![t].cancel = runtime.cancel,
                                      ![t].db = runtime.db,
                                      ![t].client = runtime.pubsub]
            /\ Goto(t, "sd_cancel")
            /\ UNCHANGED runtime
    /\ UNCHANGED <<wg, db, client, consumer, runCtx, nextCycle>>
    /\ UNCHANGED <<pipelineVars, call>>

\* ShutdownCancel that goes on to the wait without calling cancel()
ShutdownCancelSkips(t) ==
    /\ pc[t] = "sd_cancel"
    /\ Goto(t, "sd_wait")
    /\ UNCHANGED <<runtime, mu, wg, frame, db, client, consumer, runCtx, nextCycle>>
    /\ UNCHANGED <<pipelineVars, call>>

\* lines 223-225: cancel()
ShutdownCancel(t) ==
    /\ pc[t] = "sd_cancel"
    /\ IF frame[t].cancel # nil
       THEN runCtx' = [runCtx EXCEPT ![frame[t].cancel] = "cancelled"]
       ELSE UNCHANGED runCtx
    /\ Goto(t, "sd_wait")
    /\ UNCHANGED <<runtime, mu, wg, frame, db, client, consumer, nextCycle>>
    /\ UNCHANGED <<pipelineVars, call>>

\* ShutdownWaitDone that goes on without runtime.wg.Wait() having returned
ShutdownWaitDoneNoWait(t) ==
    /\ pc[t] = "sd_wait"
    /\ Goto(t, "sd_close")
    /\ UNCHANGED <<runtime, mu, wg, frame, db, client, consumer, runCtx, nextCycle>>
    /\ UNCHANGED <<pipelineVars, call>>

\* lines 227-234: case <-done, closed once runtime.wg.Wait() has returned
ShutdownWaitDone(t) ==
    /\ pc[t] = "sd_wait"
    /\ wg = 0
    /\ Goto(t, "sd_close")
    /\ UNCHANGED <<runtime, mu, wg, frame, db, client, consumer, runCtx, nextCycle>>
    /\ UNCHANGED <<pipelineVars, call>>

\* ShutdownCtxDone that closes the client and the database before it returns
ShutdownCtxDoneCloses(t) ==
    /\ pc[t] = "sd_wait"
    /\ Return(t, "ctxErr", 236)
    /\ client' = [client EXCEPT ![frame[t].client] = "closed"]
    /\ db' = [db EXCEPT ![frame[t].db] = "closed"]
    /\ UNCHANGED <<runtime, mu, wg, consumer, runCtx, nextCycle>>
    /\ UNCHANGED <<pipelineVars, call>>

\* lines 235-236: case <-ctx.Done(): return ctx.Err(); the caller's ctx can
\* expire at any time, also when done is closed as well
ShutdownCtxDone(t) ==
    /\ pc[t] = "sd_wait"
    /\ Return(t, "ctxErr", 236)
    /\ UNCHANGED <<runtime, mu, wg, db, client, consumer, runCtx, nextCycle>>
    /\ UNCHANGED <<pipelineVars, call>>

\* lines 239-244: client.Close(), db.Close()
ShutdownClose(t) ==
    /\ pc[t] = "sd_close"
    /\ client' = IF frame[t].client # nil
                 THEN [client EXCEPT ![frame[t].client] = "closed"] ELSE client
    /\ db' = IF frame[t].db # nil
             THEN [db EXCEPT ![frame[t].db] = "closed"] ELSE db
    /\ Goto(t, "sd_reset")
    /\ UNCHANGED <<runtime, mu, wg, frame, consumer, runCtx, nextCycle>>
    /\ UNCHANGED <<pipelineVars, call>>

\* lines 245-253: under runtime.mu the state is reset
ShutdownReset(t) ==
    /\ pc[t] = "sd_reset"
    /\ mu = 0
    /\ mu' = 0
    /\ runtime' = [runtime EXCEPT !.initialized = FALSE, !.initializing = FALSE,
                                  !.recorder = nil, !.cancel = nil,
                                  !.db = nil, !.pubsub = nil]
    /\ Return(t, "nil", 253)
    /\ UNCHANGED <<wg, db, client, consumer, runCtx, nextCycle>>
    /\ UNCHANGED <<pipelineVars, call>>

(***************************************************************************)
(* The background goroutine of env.go:166-175 and its context.             *)
(***************************************************************************)
\* errors.Is(err, context.Canceled)
IsCanceled(err) == err = "context.Canceled"

\* the goroutine that reports whatever consumer.Run returned
GoroutineEndReportsAll(err, hasHandler) ==
    [val |-> err, at |-> IF hasHandler THEN 170 ELSE 172]

\* lines 168-174: what the goroutine does with the error consumer.Run
\* returned: opts.OnConsumerError(err) at line 170, log.Printf at line 172,
\* or nothing (175); hasHandler is opts.OnConsumerError != nil
GoroutineEnd(err, hasHandler) ==
    IF err # "nil" /\ ~IsCanceled(err)
    THEN [val |-> err, at |-> IF hasHandler THEN 170 ELSE 172]
    ELSE [val |-> err, at |-> 175]

\* consumer.Run returns because runCtx is done: Subscription.Receive returns
\* nil once its ctx is done; deferred wg.Done()
ConsumerReturn(c) ==
    /\ consumer[c] = "running"
    /\ runCtx[c] = "cancelled"
    /\ consumer' = [consumer EXCEPT ![c] = "done"]
    /\ wg' = wg - 1
    /\ \E hasHandler \in BOOLEAN : ret' = GoroutineEnd("nil", hasHandler)
    /\ UNCHANGED <<runtime, mu, pc, frame, db, client, runCtx, nextCycle>>
    /\ UNCHANGED <<pipelineVars, call>>

\* consumer.Run returns a fatal transport error; deferred wg.Done()
ConsumerFatal(c) ==
    /\ consumer[c] = "running"
    /\ consumer' = [consumer EXCEPT ![c] = "done"]
    /\ wg' = wg - 1
    /\ \E hasHandler \in BOOLEAN : ret' = GoroutineEnd("errTransport", hasHandler)
    /\ UNCHANGED <<runtime, mu, pc, frame, db, client, runCtx, nextCycle>>
    /\ UNCHANGED <<pipelineVars, call>>

\* the ctx given to InitWithOptions is cancelled: runCtx is derived from it
ParentCtxDone(c) ==
    /\ runCtx[c] = "active"
    /\ runCtx' = [runCtx EXCEPT ![c] = "cancelled"]
    /\ ret' = NoReturn
    /\ UNCHANGED <<runtime, mu, wg, pc, frame, db, client, consumer, nextCycle>>
    /\ UNCHANGED <<pipelineVars, call>>

(***************************************************************************)
(* The wire format: Entry encoded as a JSON object.  A payload is either   *)
(* not JSON at all or an object whose members are absent, strings or of    *)
(* another JSON type.                                                       *)
(***************************************************************************)
Absent == [t |-> "absent"]
Number == [t |-> "number"]
String(v) == [t |-> "string", v |-> v]

\* json.Marshal(entry) with the struct tags of Entry: log_audit_trail_id,
\* log_action and log_created_date are always written, log_req_id is
\* omitted when empty
Marshal(entry) ==
    [syntax |-> TRUE,
     log_audit_trail_id |-> String(entry.ID),
     log_req_id |-> IF entry.RequestID = <<>> THEN Absent ELSE String(entry.RequestID),
     log_action |-> String(entry.Action),
     log_created_date |-> String(entry.CreatedDate)]

\* json.Unmarshal(msg.Data, &entry): a syntax error or a member of the wrong
\* JSON type is an error; an absent member leaves the zero value
Unmarshal(data) ==
    IF \/ ~data.syntax
       \/ data.log_audit_trail_id.t = "number"
       \/ data.log_req_id.t = "number"
       \/ data.log_action.t = "number"
       \/ data.log_created_date.t = "number"
    THEN [entry |-> ZeroEntry, err |-> "errUnmarshal"]
    ELSE [entry |->
            [ID |-> IF data.log_audit_trail_id.t = "absent" THEN ""
                    ELSE data.log_audit_trail_id.v,
             RequestID |-> IF data.log_req_id.t = "absent" THEN <<>>
                           ELSE data.log_req_id.v,
             Action |-> IF data.log_action.t = "absent" THEN <<>>
                        ELSE data.log_action.v,
             CreatedDate |-> IF data.log_created_date.t = "absent" THEN ZeroTime
                             ELSE data.log_created_date.v],
          err |-> "nil"]

\* the payloads the subscription delivers: not JSON, the empty object, a
\* member of the wrong type, a normalized entry, an entry without id and
\* date, an entry whose action is blank
WirePayloadSeq ==
    << [syntax |-> FALSE, log_audit_trail_id |-> Absent, log_req_id |-> Absent,
        log_action |-> Absent, log_created_date |-> Absent],
       [syntax |-> TRUE, log_audit_trail_id |-> Absent, log_req_id |-> Absent,
        log_action |-> Absent, log_created_date |-> Absent],
       [syntax |-> TRUE, log_audit_trail_id |-> String("id1"),
        log_req_id |-> Absent, log_action |-> Number,
        log_created_date |-> String([instant |-> 1, loc |-> "UTC"])],
       Marshal([ID |-> "id1", RequestID |-> <<"r">>, Action |-> <<"a">>,
                CreatedDate |-> [instant |-> 1, loc |-> "UTC"]]),
       Marshal([ID |-> "", RequestID |-> <<>>, Action |-> <<"a">>,
                CreatedDate |-> ZeroTime]),
       Marshal([ID |-> "id1", RequestID |-> <<>>, Action |-> <<" ">>,
                CreatedDate |-> [instant |-> 1, loc |-> "UTC"]]) >>

WirePayloads == {WirePayloadSeq[i] : i \in 1..Len(WirePayloadSeq)}

PayloadIndex(data) == CHOOSE i \in 1..Len(WirePayloadSeq) : WirePayloadSeq[i] = data

(***************************************************************************)
(* The consume-and-persist pipeline: gcpSubscriber.Receive                  *)
(* (gcp_pubsub.go:28-41), the handler of Consumer.Run and                   *)
(* AuditTrail.Record (audittrail.go:91-129).                                *)
(***************************************************************************)
ZeroCallback ==
    [entry |-> ZeroEntry, recordCalls |-> 0, recordErr |-> "none",
     onError |-> 0, herr |-> "none", acks |-> 0, nacks |-> 0]

PipelineOff ==
    /\ msgs = <<>>
    /\ callback = <<>>
    /\ sub = [ctx |-> "none", run |-> "none", err |-> "none"]
    /\ auditTable = EmptyBag

\* Consumer.Run has called subscriber.Receive; nothing is delivered yet.  The
\* messages are numbered in the order of their payloads: the numbering
\* carries no meaning, the callbacks of all of them run concurrently
PipelineInit ==
    /\ msgs \in [Msgs -> [data : WirePayloads, state : {"queued"},
                          deliveries : {0}, rows : {0}]]
    /\ \A m, n \in Msgs :
          m < n => PayloadIndex(msgs[m].data) <= PayloadIndex(msgs[n].data)
    /\ callback = [m \in Msgs |-> ZeroCallback]
    /\ sub = [ctx |-> "active", run |-> "receiving", err |-> "none"]
    /\ auditTable = EmptyBag

InCallback(m) == msgs[m].state \in {"unmarshal", "handler", "settle"}

\* sub.Receive invokes the callback for message m, also for one that was
\* acknowledged before (the transport delivers at least once)
Deliver(m) ==
    /\ sub.run = "receiving"
    /\ sub.ctx = "active"
    /\ msgs[m].state \in {"queued", "acked"}
    /\ msgs[m].deliveries < MaxDeliveries
    /\ msgs' = [msgs EXCEPT ![m].state = "unmarshal", ![m].deliveries = @ + 1]
    /\ callback' = [callback EXCEPT ![m] = ZeroCallback]
    /\ UNCHANGED <<sub, auditTable>>
    /\ UNCHANGED <<lifecycleVars, call>>

\* the callback of Receive that hands a payload that does not decode on to
\* the handler with the zero Entry
ReceiveUnmarshalIgnoresError(m) ==
    /\ msgs[m].state = "unmarshal"
    /\ callback' = [callback EXCEPT ![m].entry = Unmarshal(msgs[m].data).entry]
    /\ msgs' = [msgs EXCEPT ![m].state = "handler"]
    /\ UNCHANGED <<sub, auditTable>>
    /\ UNCHANGED <<lifecycleVars, call>>

\* gcp_pubsub.go:30-34: json.Unmarshal; on error msg.Nack() and return
ReceiveUnmarshal(m) ==
    /\ msgs[m].state = "unmarshal"
    /\ LET decoded == Unmarshal(msgs[m].data) IN
       IF decoded.err # "nil"
       THEN /\ callback' = [callback EXCEPT ![m].nacks = @ + 1]
            /\ msgs' = [msgs EXCEPT ![m].state = "queued"]
       ELSE /\ callback' = [callback EXCEPT ![m].entry = decoded.entry]
            /\ msgs' = [msgs EXCEPT ![m].state = "handler"]
    /\ UNCHANGED <<sub, auditTable>>
    /\ UNCHANGED <<lifecycleVars, call>>

\* log_audit_trail_id is the PRIMARY KEY of the table (audittrail.go:138):
\* the database refuses a row whose id the table holds already.  An id that
\* newID() generated (16 random bytes) is held by no other row: FreshID
\* stands for a different id each time
DuplicateKey(entry, id) ==
    /\ entry.ID # ""
    /\ \E row \in BagToSet(auditTable) : row.ID = id

\* AuditTrail.Record(ctx, entry), audittrail.go:91-129: the entry is
\* normalized, then one INSERT is executed; execOK is the store's verdict
\* on a row the key admits
AuditTrailRecord(entry, execOK) ==
    LET normalized == normalizeEntry(entry, FreshID, ClockNow) IN
    IF normalized.err # "nil"
    THEN [err |-> normalized.err, rows |-> EmptyBag]
    ELSE IF DuplicateKey(entry, normalized.entry.ID)
    THEN [err |-> "errDuplicateKey", rows |-> EmptyBag]
    ELSE IF execOK
    THEN [err |-> "nil", rows |-> SetToBag({normalized.entry})]
    ELSE [err |-> "errExec", rows |-> EmptyBag]

\* the handler of Consumer.Run that reports a store error to onError and
\* then returns nil
HandlerSwallowsError(m) ==
    /\ msgs[m].state = "handler"
    /\ \E execOK \in BOOLEAN :
          LET res == AuditTrailRecord(callback[m].entry, execOK) IN
          /\ auditTable' = auditTable (+) res.rows
          /\ callback' = [callback EXCEPT
                ![m].recordCalls = @ + 1,
                ![m].recordErr = res.err,
                ![m].onError = IF res.err # "nil" THEN @ + 1 ELSE @,
                ![m].herr = "nil"]
          /\ msgs' = [msgs EXCEPT ![m].state = "settle",
                                  ![m].rows = @ + BagCardinality(res.rows)]
    /\ UNCHANGED sub
    /\ UNCHANGED <<lifecycleVars, call>>

\* the handler of Consumer.Run: c.audit.Record, c.onError on failure, the
\* error is returned
Handler(m) ==
    /\ msgs[m].state = "handler"
    /\ \E execOK \in BOOLEAN :
          LET res == AuditTrailRecord(callback[m].entry, execOK) IN
          /\ auditTable' = auditTable (+) res.rows
          /\ callback' = [callback EXCEPT
                ![m].recordCalls = @ + 1,
                ![m].recordErr = res.err,
                ![m].onError = IF res.err # "nil" THEN @ + 1 ELSE @,
                ![m].herr = res.err]
          /\ msgs' = [msgs EXCEPT ![m].state = "settle",
                                  ![m].rows = @ + BagCardinality(res.rows)]
    /\ UNCHANGED sub
    /\ UNCHANGED <<lifecycleVars, call>>

\* ReceiveSettle that ends the subscription with the error of the handler
ReceiveSettleEndsOnError(m) ==
    /\ msgs[m].state = "settle"
    /\ IF callback[m].herr # "nil"
       THEN /\ callback' = [callback EXCEPT ![m].nacks = @ + 1]
            /\ msgs' = [msgs EXCEPT ![m].state = "queued"]
            /\ sub' = [sub EXCEPT !.run = "returned", !.err = callback[m].herr]
       ELSE /\ callback' = [callback EXCEPT ![m].acks = @ + 1]
            /\ msgs' = [msgs EXCEPT ![m].state = "acked"]
            /\ UNCHANGED sub
    /\ UNCHANGED auditTable
    /\ UNCHANGED <<lifecycleVars, call>>

\* gcp_pubsub.go:35-39: msg.Nack() when the handler returned an error,
\* msg.Ack() otherwise
ReceiveSettle(m) ==
    /\ msgs[m].state = "settle"
    /\ IF callback[m].herr # "nil"
       THEN /\ callback' = [callback EXCEPT ![m].nacks = @ + 1]
            /\ msgs' = [msgs EXCEPT ![m].state = "queued"]
       ELSE /\ callback' = [callback EXCEPT ![m].acks = @ + 1]
            /\ msgs' = [msgs EXCEPT ![m].state = "acked"]
    /\ UNCHANGED <<sub, auditTable>>
    /\ UNCHANGED <<lifecycleVars, call>>

\* the ctx of Consumer.Run is cancelled
SubCtxDone ==
    /\ sub.ctx = "active"
    /\ sub' = [sub EXCEPT !.ctx = "cancelled"]
    /\ UNCHANGED <<msgs, callback, auditTable>>
    /\ UNCHANGED <<lifecycleVars, call>>

\* sub.Receive returns nil after cancellation, once its callbacks returned;
\* Consumer.Run returns what Receive returned
ReceiveReturn ==
    /\ sub.run = "receiving"
    /\ sub.ctx = "cancelled"
    /\ \A m \in Msgs : ~InCallback(m)
    /\ sub' = [sub EXCEPT !.run = "returned", !.err = "nil"]
    /\ UNCHANGED <<msgs, callback, auditTable>>
    /\ UNCHANGED <<lifecycleVars, call>>

\* sub.Receive ends with a fatal transport error
ReceiveFatal ==
    /\ sub.run = "receiving"
    /\ \A m \in Msgs : ~InCallback(m)
    /\ sub' = [sub EXCEPT !.run = "returned", !.err = "errTransport"]
    /\ UNCHANGED <<msgs, callback, auditTable>>
    /\ UNCHANGED <<lifecycleVars, call>>

vars == <<runtime, mu, wg, pc, ret, frame, db, client, consumer, runCtx, nextCycle,
          msgs, callback, sub, auditTable, call>>

Init == LifecycleInit /\ PipelineOff /\ CallOff

Next ==
    \/ \E t \in Callers : InitCheck(t)
    \/ \E t \in Callers : InitConstruct(t)
    \/ \E t \in Callers : InitStart(t)
    \/ \E t \in Callers : InitPublish(t)
    \/ \E t \in Callers : InitDefer(t)
    \/ \E t \in Callers : RecordRead(t)
    \/ \E t \in Callers : PublishReturn(t)
    \/ \E t \in Callers : ShutdownCheck(t)
    \/ \E t \in Callers : ShutdownCancel(t)
    \/ \E t \in Callers : ShutdownWaitDone(t)
    \/ \E t \in Callers : ShutdownCtxDone(t)
    \/ \E t \in Callers : ShutdownClose(t)
    \/ \E t \in Callers : ShutdownReset(t)
    \/ \E c \in Cycles : ConsumerReturn(c)
    \/ \E c \in Cycles : ConsumerFatal(c)
    \/ \E c \in Cycles : ParentCtxDone(c)

Spec == Init /\ [][Next]_vars

(***************************************************************************)
(* The lifecycle for termination: the contexts given to Shutdown never      *)
(* expire; a call that has begun goes on (the scheduler runs every          *)
(* goroutine that can run, and the locked regions do not block), and        *)
(* consumer.Run returns once its context is done.  Whether a caller makes   *)
(* another call, the transport fails or the parent context ends is left     *)
(* open.                                                                    *)
(***************************************************************************)
NextLive ==
    \/ \E t \in Callers : InitCheck(t)
    \/ \E t \in Callers : InitConstruct(t)
    \/ \E t \in Callers : InitStart(t)
    \/ \E t \in Callers : InitPublish(t)
    \/ \E t \in Callers : InitDefer(t)
    \/ \E t \in Callers : RecordRead(t)
    \/ \E t \in Callers : PublishReturn(t)
    \/ \E t \in Callers : ShutdownCheck(t)
    \/ \E t \in Callers : ShutdownCancel(t)
    \/ \E t \in Callers : ShutdownWaitDone(t)
    \/ \E t \in Callers : ShutdownClose(t)
    \/ \E t \in Callers : ShutdownReset(t)
    \/ \E c \in Cycles : ConsumerReturn(c)
    \/ \E c \in Cycles : ConsumerFatal(c)
    \/ \E c \in Cycles : ParentCtxDone(c)

Fairness ==
    /\ \A t \in Callers :
          /\ WF_vars(InitConstruct(t))
          /\ WF_vars(InitStart(t))
          /\ WF_vars(InitPublish(t))
          /\ WF_vars(InitDefer(t))
          /\ WF_vars(PublishReturn(t))
          /\ WF_vars(ShutdownCancel(t))
          /\ WF_vars(ShutdownWaitDone(t))
          /\ WF_vars(ShutdownClose(t))
          /\ WF_vars(ShutdownReset(t))
    /\ \A c \in Cycles : WF_vars(ConsumerReturn(c))

SpecLive == Init /\ [][NextLive]_vars /\ Fairness

(***************************************************************************)
(* The pipeline on its own: one Consumer.Run serving the subscription.     *)
(***************************************************************************)
InitPipeline == LifecycleInit /\ PipelineInit /\ CallOff

NextPipeline ==
    \/ \E m \in Msgs : Deliver(m)
    \/ \E m \in Msgs : ReceiveUnmarshal(m)
    \/ \E m \in Msgs : Handler(m)
    \/ \E m \in Msgs : ReceiveSettle(m)
    \/ SubCtxDone
    \/ ReceiveReturn
    \/ ReceiveFatal

SpecPipeline == InitPipeline /\ [][NextPipeline]_vars

(***************************************************************************)
(* The pipeline for at-least-once persistence: the transport delivers a     *)
(* rejected message again, without end; the callback of a delivery runs to  *)
(* its end; the database does not fail for reasons of its own for ever.     *)
(***************************************************************************)
\* sub.Receive delivers a rejected message once more, beyond the deliveries
\* the model counts
Redeliver(m) ==
    /\ sub.run = "receiving"
    /\ sub.ctx = "active"
    /\ msgs[m].state = "queued"
    /\ msgs[m].deliveries >= MaxDeliveries
    /\ msgs' = [msgs EXCEPT ![m].state = "unmarshal"]
    /\ callback' = [callback EXCEPT ![m] = ZeroCallback]
    /\ UNCHANGED <<sub, auditTable>>
    /\ UNCHANGED <<lifecycleVars, call>>

\* the handler runs and the database does not fail for a reason of its own
HandlerStoreAnswers(m) == Handler(m) /\ callback'[m].recordErr # "errExec"

NextPipelineLive ==
    \/ \E m \in Msgs : Deliver(m)
    \/ \E m \in Msgs : Redeliver(m)
    \/ \E m \in Msgs : ReceiveUnmarshal(m)
    \/ \E m \in Msgs : Handler(m)
    \/ \E m \in Msgs : ReceiveSettle(m)
    \/ SubCtxDone
    \/ ReceiveReturn
    \/ ReceiveFatal

PipelineFairness ==
    \A m \in Msgs :
        /\ WF_vars(msgs[m].state = "queued" /\ msgs[m].deliveries > 0 /\ Deliver(m))
        /\ WF_vars(Redeliver(m))
        /\ WF_vars(ReceiveUnmarshal(m))
        /\ WF_vars(Handler(m))
        /\ SF_vars(HandlerStoreAnswers(m))
        /\ WF_vars(ReceiveSettle(m))

SpecPipelineLive == InitPipeline /\ [][NextPipelineLive]_vars /\ PipelineFairness

(***************************************************************************)
(* normalizeEntry on its own.                                               *)
(***************************************************************************)
InitNormalize == LifecycleInit /\ PipelineOff /\ NormalizeInit

NextNormalize == NormalizeApply

SpecNormalize == InitNormalize /\ [][NextNormalize]_vars

(***************************************************************************)
(* PubSubRecorder.Record on its own.                                        *)
(***************************************************************************)
InitRecorder == LifecycleInit /\ PipelineOff /\ RecorderInit

NextRecorder ==
    \/ RecorderRecord
    \/ PublisherReturn

SpecRecorder == InitRecorder /\ [][NextRecorder]_vars

(***************************************************************************)
(* gcpPublisher.Publish in front of the Pub/Sub client.  The repository     *)
(* holds three copies of it: gcp_pubsub.go:14-22 and part_001:233-245 wait  *)
(* for result.Get(ctx), part_000:15-31 hands result.Get to a goroutine and  *)
(* returns nil.  A build holds one of them.  topic.Publish queues the       *)
(* message; the client later settles it as accepted or failed.              *)
(***************************************************************************)
PublishVariants == {"gcp_pubsub.go", "part_001", "part_000"}

Waits(variant) == variant \in {"gcp_pubsub.go", "part_001"}

NoSend == [transport |-> "unsent", ret |-> "none", goroutine |-> "none",
           logged |-> FALSE]

PublishInit ==
    call \in [fn : {"Publish"}, variant : PublishVariants, sends : {<<>>}]

\* Publish is entered: json.Marshal, topic.Publish and, in part_000, the go
\* statement and return nil
PublishSend ==
    /\ call.fn = "Publish"
    /\ Len(call.sends) < MaxRecords
    /\ \E marshalOK \in BOOLEAN :
          call' = [call EXCEPT !.sends = Append(@,
                      IF ~marshalOK
                      THEN [NoSend EXCEPT !.ret = "errMarshal"]
                      ELSE IF Waits(call.variant)
                      THEN [NoSend EXCEPT !.transport = "pending"]
                      ELSE [NoSend EXCEPT !.transport = "pending",
                                          !.goroutine = "waiting",
                                          !.ret = "nil"])]
    /\ UNCHANGED <<lifecycleVars, pipelineVars>>

\* the Pub/Sub client settles a queued message
TransportSettle ==
    /\ call.fn = "Publish"
    /\ \E i \in 1..Len(call.sends), outcome \in {"accepted", "failed"} :
          /\ call.sends[i].transport = "pending"
          /\ call' = [call EXCEPT !.sends[i].transport = outcome]
    /\ UNCHANGED <<lifecycleVars, pipelineVars>>

\* result.Get(ctx) returns in gcp_pubsub.go:20-21 and part_001:240-244: the
\* settled outcome, or ctx.Err() when ctx is done first
PublishGet ==
    /\ call.fn = "Publish"
    /\ Waits(call.variant)
    /\ \E i \in 1..Len(call.sends) :
          /\ call.sends[i].ret = "none"
          /\ \/ /\ call.sends[i].transport = "accepted"
                /\ call' = [call EXCEPT !.sends[i].ret = "nil"]
             \/ /\ call.sends[i].transport = "failed"
                /\ call' = [call EXCEPT !.sends[i].ret = "errTransport"]
             \/ /\ call.sends[i].transport = "pending"
                /\ call' = [call EXCEPT !.sends[i].ret = "ctxErr"]
    /\ UNCHANGED <<lifecycleVars, pipelineVars>>

\* the goroutine of part_000:24-28: result.Get(context.Background()) returns
\* and a failure is logged
PublishGoroutine ==
    /\ call.fn = "Publish"
    /\ \E i \in 1..Len(call.sends) :
          /\ call.sends[i].goroutine = "waiting"
          /\ call.sends[i].transport \in {"accepted", "failed"}
          /\ call' = [call EXCEPT !.sends[i].goroutine = "done",
                                  !.sends[i].logged =
                                      (call.sends[i].transport = "failed")]
    /\ UNCHANGED <<lifecycleVars, pipelineVars>>

InitPublisher == LifecycleInit /\ PipelineOff /\ PublishInit

NextPublisher ==
    \/ PublishSend
    \/ TransportSettle
    \/ PublishGet
    \/ PublishGoroutine

SpecPublisher == InitPublisher /\ [][NextPublisher]_vars

(***************************************************************************)
(* GinMiddleware, gin.go:253-339 (and its first copy, lines 19-87, which    *)
(* differs only in not capturing the response body): the handler function   *)
(* it returns, serving requests concurrently.                               *)
(***************************************************************************)
Requests == 1..MaxRequests

GinPaths == {"/health", "/a", "/b"}

\* cfg.shouldSkip: the default skips "/health" (gin.go:389-392);
\* WithSkipPaths(paths...) skips the paths given (437-447)
SkipConfigs == {{"/health"}, {"/a", "/b"}, {}}

shouldSkip(skipped, path) == path \in skipped

\* what Record returns to the goroutine
RecordResults == {"nil", "errNotInit", "errPublish"}

NoRequest ==
    [path |-> "none", stage |-> "new", status |-> 0, written |-> 0,
     task |-> "none", records |-> 0, recordErr |-> "none", onError |-> 0]

GinInit ==
    call \in [fn : {"GinMiddleware"}, skip : SkipConfigs,
              reqs : {[r \in Requests |-> NoRequest]}]

\* lines 261-297: the request enters the middleware; a skipped one and one
\* that is not both go on to c.Next()
GinEnter(r) ==
    /\ call.fn = "GinMiddleware"
    /\ call.reqs[r].stage = "new"
    /\ \E path \in GinPaths :
          call' = [call EXCEPT !.reqs[r].path = path,
                               !.reqs[r].stage =
                                   IF shouldSkip(call.skip, path)
                                   THEN "next_skipped" ELSE "next"]
    /\ UNCHANGED <<lifecycleVars, pipelineVars>>

\* GinReturn that calls Record itself before it returns
GinReturnRecordsInline(r) ==
    /\ call.fn = "GinMiddleware"
    /\ call.reqs[r].stage \in {"next_skipped", "next"}
    /\ \E status \in {200, 500} :
          IF call.reqs[r].stage = "next_skipped"
          THEN call' = [call EXCEPT !.reqs[r].stage = "returned",
                                    !.reqs[r].status = status,
                                    !.reqs[r].written = status]
          ELSE call' = [call EXCEPT !.reqs[r].written = status,
                                    !.reqs[r].status = status,
                                    !.reqs[r].task = "record",
                                    !.reqs[r].records = @ + 1]
    /\ UNCHANGED <<lifecycleVars, pipelineVars>>

\* c.Next() returns, the handlers having written the status; lines 264-265
\* for a skipped request: return; lines 299-339 otherwise: the entry is
\* built, the go statement starts the task, and the middleware returns
GinReturn(r) ==
    /\ call.fn = "GinMiddleware"
    /\ call.reqs[r].stage \in {"next_skipped", "next"}
    /\ \E status \in {200, 500} :
          IF call.reqs[r].stage = "next_skipped"
          THEN call' = [call EXCEPT !.reqs[r].stage = "returned",
                                    !.reqs[r].status = status,
                                    !.reqs[r].written = status]
          ELSE call' = [call EXCEPT !.reqs[r].stage = "returned",
                                    !.reqs[r].status = status,
                                    !.reqs[r].written = status,
                                    !.reqs[r].task = "started"]
    /\ UNCHANGED <<lifecycleVars, pipelineVars>>

\* line 332: the task calls Record(c.Request.Context(), entry)
GinTaskRecord(r) ==
    /\ call.fn = "GinMiddleware"
    /\ call.reqs[r].task = "started"
    /\ call' = [call EXCEPT !.reqs[r].task = "record",
                            !.reqs[r].records = @ + 1]
    /\ UNCHANGED <<lifecycleVars, pipelineVars>>

\* lines 332-336: Record returns; its error goes to cfg.onError, which the
\* options never leave nil; the task ends
GinTaskReturn(r) ==
    /\ call.fn = "GinMiddleware"
    /\ call.reqs[r].task = "record"
    /\ \E err \in RecordResults :
          call' = [call EXCEPT !.reqs[r].task = "done",
                               !.reqs[r].recordErr = err,
                               !.reqs[r].onError =
                                   IF err # "nil" THEN @ + 1 ELSE @]
    /\ UNCHANGED <<lifecycleVars, pipelineVars>>

InitGin == LifecycleInit /\ PipelineOff /\ GinInit

NextGin ==
    \/ \E r \in Requests : GinEnter(r)
    \/ \E r \in Requests : GinReturn(r)
    \/ \E r \in Requests : GinTaskRecord(r)
    \/ \E r \in Requests : GinTaskReturn(r)

SpecGin == InitGin /\ [][NextGin]_vars

(***************************************************************************)
(* The store on its own.                                                    *)
(***************************************************************************)
InitStore == LifecycleInit /\ PipelineOff /\ StoreInit

NextStore ==
    \/ StoreNew
    \/ StoreRecord
    \/ StoreEnsureTable

SpecStore == InitStore /\ [][NextStore]_vars

(***************************************************************************)
(* Lifecycle states of the specification, read off the program state.      *)
(***************************************************************************)
\* caller t is between setting and clearing runtime.initializing
InConstruction(t) ==
    pc[t] \in {"init_open", "init_start",
               "init_publish", "init_defer"}

\* caller t is inside a Shutdown that found the state running
ShuttingDown(t) == pc[t] \in {"sd_cancel", "sd_wait", "sd_close", "sd_reset"}

Running == runtime.initialized /\ \A t \in Callers : ~ShuttingDown(t)

Uninitialized(rt) ==
    /\ ~rt.initialized
    /\ ~rt.initializing
    /\ rt.recorder = nil
    /\ rt.cancel = nil
    /\ rt.db = nil
    /\ rt.pubsub = nil

\* the step is the first step of an InitWithOptions call, made by caller t
\* or, when the call returns on that step, by any idle caller
InitCalled(t) ==
    /\ pc[t] = "idle"
    /\ \/ pc'[t] = "init_open"
       \/ ret'.at \in {91, 95}

\* the step is the first step of a Record call, likewise
RecordCalled(t) ==
    /\ pc[t] = "idle"
    /\ \/ pc'[t] = "rec_publish"
       \/ ret'.at \in {198, 207}

\* the step is the first step of a Shutdown call, likewise
ShutdownCalled(t) ==
    /\ pc[t] = "idle"
    /\ \/ pc'[t] = "sd_cancel"
       \/ ret'.at = 216

(***************************************************************************)
(* C1: at most one background Consumer.Run goroutine exists at any time.   *)
(* Fails: a Shutdown that finds the state not initialized clears            *)
(* runtime.initializing under a construction in flight, a second            *)
(* InitWithOptions then passes the guard and starts a second goroutine.     *)
(***************************************************************************)
C1_AtMostOneConsumer ==
    Cardinality({c \in Cycles : consumer[c] = "running"}) <= 1

(***************************************************************************)
(* C2: at most one InitWithOptions call is in its construction phase        *)
(* (between setting and clearing runtime.initializing) at any time.         *)
(***************************************************************************)
C2_AtMostOneConstruction ==
    Cardinality({t \in Callers : InConstruction(t)}) <= 1

(***************************************************************************)
(* C3: an InitWithOptions call made while runtime.initialized holds         *)
(* returns nil at once (line 91), opens no database handle and no client,   *)
(* starts no goroutine and leaves every field of runtime unchanged.         *)
(***************************************************************************)
C3_InitIdempotentWhenRunning ==
    [][\A t \in Callers :
          (runtime.initialized /\ InitCalled(t)) =>
              /\ pc'[t] = "idle"
              /\ ret'.val = "nil"
              /\ ret'.at = 91
              /\ UNCHANGED <<runtime, wg, db, client, consumer, runCtx, nextCycle>>]_vars

C3_Witness ==
    /\ ret.val = "nil"
    /\ ret.at = 91
    /\ runtime.initialized
    /\ runtime.recorder # nil

(***************************************************************************)
(* C4: an InitWithOptions call whose construction fails returns the error,  *)
(* has closed what it opened, has started no goroutine, and leaves the      *)
(* state uninitialized (initialized = false, initializing = false,          *)
(* recorder nil); initialized becomes true only by the final step of a      *)
(* construction whose resources are all open.                               *)
(***************************************************************************)
C4_FailureLeavesUninitialized ==
    [][\A t \in Callers :
          /\ (pc[t] = "init_defer" /\ pc'[t] = "idle") =>
                /\ ret'.val = frame[t].err
                /\ ret'.val \in {"errOpen", "errTable", "errClient",
                                 "errRecorder", "errConsumer"}
                /\ frame[t].id # nil =>
                      /\ db'[frame[t].id] = "closed"
                      /\ client'[frame[t].id] # "open"
                      /\ consumer'[frame[t].id] = "none"
                /\ ~runtime'.initialized
                /\ ~runtime'.initializing
                /\ runtime'.recorder = nil
          /\ (pc[t] = "init_publish" /\ pc'[t] = "idle") =>
                /\ db[frame[t].id] = "open"
                /\ client[frame[t].id] = "open"
                /\ consumer[frame[t].id] # "none"]_vars

(***************************************************************************)
(* C5: Record returns the "not initialized" error and publishes nothing     *)
(* whenever the state is not running (uninitialized, initializing or        *)
(* shutting down), and hands the entry to the recorder only when the state  *)
(* is running.                                                              *)
(***************************************************************************)
C5_RecordOnlyWhenRunning ==
    [][\A t \in Callers :
          RecordCalled(t) =>
              IF Running
              THEN ret'.val # "errNotInit"
              ELSE ret'.val = "errNotInit"]_vars

(***************************************************************************)
(* C6: a Shutdown call made when the state is not running returns nil and   *)
(* leaves every field of runtime and every resource unchanged.              *)
(***************************************************************************)
C6_ShutdownNoopWhenNotRunning ==
    [][\A t \in Callers :
          (~runtime.initialized /\ ShutdownCalled(t)) =>
              /\ ret'.val = "nil"
              /\ UNCHANGED <<runtime, wg, db, client, consumer, runCtx>>]_vars

(***************************************************************************)
(* C7: a Shutdown that found the state running cancels the consumer's       *)
(* context before it waits, has seen the goroutine of its construction      *)
(* finish before it closes, and has closed client and database before it    *)
(* resets; no client or database is closed under a running consumer.        *)
(***************************************************************************)
C7_ShutdownOrder ==
    /\ \A t \in Callers :
          /\ pc[t] \in {"sd_wait", "sd_close", "sd_reset"} =>
                runCtx[frame[t].cancel] = "cancelled"
          /\ pc[t] \in {"sd_close", "sd_reset"} =>
                consumer[frame[t].cancel] = "done"
          /\ pc[t] = "sd_reset" =>
                client[frame[t].client] = "closed" /\ db[frame[t].db] = "closed"
    /\ \A c \in Cycles :
          consumer[c] = "running" => client[c] = "open" /\ db[c] = "open"

C7_Witness ==
    /\ ret.val = "nil"
    /\ ret.at = 253
    /\ ~runtime.initialized
    /\ \E c \in Cycles :
          /\ runCtx[c] = "cancelled"
          /\ consumer[c] = "done"
          /\ client[c] = "closed"
          /\ db[c] = "closed"

(***************************************************************************)
(* C8: a Shutdown whose ctx expires during the wait returns ctx.Err() and  *)
(* neither closes the client or the database nor touches runtime, which    *)
(* leaves the cleanup to a later call; and every Shutdown that gets past    *)
(* its wait, a later one included, returns nil with the client and the      *)
(* database of that construction closed and the state uninitialized.        *)
(***************************************************************************)
C8_TimeoutLeavesCleanup ==
    [][\A t \in Callers :
          /\ (pc[t] = "sd_wait" /\ pc'[t] = "idle") =>
                /\ ret'.val = "ctxErr"
                /\ ret'.at = 236
                /\ UNCHANGED <<runtime, client, db>>
          /\ (pc[t] = "sd_reset" /\ pc'[t] = "idle") =>
                /\ ret'.val = "nil"
                /\ client'[frame[t].client] = "closed"
                /\ db'[frame[t].db] = "closed"
                /\ Uninitialized(runtime')]_vars

\* a Shutdown has just returned ctx.Err() while the goroutine of the
\* construction in use was still running
C8_Witness ==
    /\ ret.val = "ctxErr"
    /\ ret.at = 236
    /\ runtime.initialized
    /\ consumer[runtime.cancel] = "running"
    /\ runCtx[runtime.cancel] = "cancelled"
    /\ client[runtime.pubsub] = "open"
    /\ db[runtime.db] = "open"

(***************************************************************************)
(* Deliveries.                                                              *)
(***************************************************************************)
\* the payload of message m decodes into an Entry
Decodes(m) == Unmarshal(msgs[m].data).err = "nil"

\* message m has been delivered and the callback of its last delivery has
\* returned
CallbackReturned(m) == msgs[m].deliveries > 0 /\ ~InCallback(m)

(***************************************************************************)
(* C9: for a delivered message whose payload decodes, each delivery makes   *)
(* exactly one AuditTrail.Record call and exactly one decision: Ack if and  *)
(* only if that call returned nil, Nack otherwise; never both, never none   *)
(* once the callback has returned, and the insert is not retried.           *)
(***************************************************************************)
C9_OneInsertOneDecision ==
    \A m \in Msgs :
        Decodes(m) =>
            /\ callback[m].recordCalls <= 1
            /\ callback[m].acks + callback[m].nacks <= 1
            /\ callback[m].acks = 1 => callback[m].recordErr = "nil"
            /\ callback[m].nacks = 1 => callback[m].recordErr \notin {"nil", "none"}
            /\ CallbackReturned(m) =>
                  /\ callback[m].recordCalls = 1
                  /\ callback[m].acks + callback[m].nacks = 1

C9_Witness ==
    \E m, n \in Msgs :
        /\ Decodes(m) /\ CallbackReturned(m)
        /\ callback[m].recordErr = "nil"
        /\ callback[m].acks = 1
        /\ msgs[m].state = "acked"
        /\ Decodes(n) /\ CallbackReturned(n)
        /\ callback[n].recordErr = "errExec"
        /\ callback[n].nacks = 1
        /\ msgs[n].state = "queued"

(***************************************************************************)
(* C10: a delivered message whose payload does not decode is rejected       *)
(* (Nack) exactly once per delivery, neither the handler nor                *)
(* AuditTrail.Record runs for it, no row is written, and the decode error   *)
(* is not the error Consumer.Run returns.                                   *)
(***************************************************************************)
C10_UndecodableRejected ==
    /\ \A m \in Msgs :
          ~Decodes(m) =>
              /\ callback[m].recordCalls = 0
              /\ callback[m].herr = "none"
              /\ callback[m].acks = 0
              /\ callback[m].nacks <= 1
              /\ CallbackReturned(m) => callback[m].nacks = 1
              /\ msgs[m].state \in {"queued", "unmarshal"}
              /\ msgs[m].rows = 0
    /\ sub.err \in {"none", "nil", "errTransport"}

C10_Witness ==
    \E m \in Msgs :
        /\ ~Decodes(m)
        /\ CallbackReturned(m)
        /\ callback[m].nacks = 1
        /\ sub.run = "returned"
        /\ sub.err = "nil"

(***************************************************************************)
(* C11: no decode failure and no store failure ends Consumer.Run: the      *)
(* subscription changes only when its ctx is cancelled or when Receive      *)
(* returns, and Receive returns only nil after the cancellation of ctx or   *)
(* the fatal error of the transport, which is what Run returns.             *)
(***************************************************************************)
C11_FailuresDoNotEndRun ==
    [][sub' # sub =>
          \/ /\ sub.ctx = "active"
             /\ sub' = [sub EXCEPT !.ctx = "cancelled"]
          \/ /\ sub.run = "receiving"
             /\ sub'.run = "returned"
             /\ sub'.ctx = sub.ctx
             /\ UNCHANGED <<msgs, callback, auditTable>>
             /\ \/ sub'.err = "errTransport"
                \/ sub'.err = "nil" /\ sub.ctx = "cancelled"]_vars

\* a decode failure and two store failures have been rejected, and
\* Consumer.Run is still receiving
C11_Witness ==
    /\ sub.run = "receiving"
    /\ sub.ctx = "active"
    /\ \E m, n \in Msgs :
          /\ ~Decodes(m) /\ CallbackReturned(m) /\ callback[m].nacks = 1
          /\ Decodes(n) /\ CallbackReturned(n)
          /\ msgs[n].deliveries = 2
          /\ callback[n].recordErr = "errExec"
          /\ callback[n].nacks = 1

\* the action consists of nothing but white space
Blank(action) == \A k \in 1..Len(action) : action[k] = " "

(***************************************************************************)
(* C12: PubSubRecorder.Record calls Publish once when the action of the     *)
(* entry is not blank and never when it is; it returns the validation       *)
(* error in the one case and what that one Publish call returned in the     *)
(* other, and an entry that was rejected is handed to nobody.               *)
(***************************************************************************)
C12_PublishOnceOrNever ==
    /\ call.publishes <= 1
    /\ call.stage = "publish" => call.publishes = 1 /\ ~Blank(call.entry.Action)
    /\ call.stage = "returned" =>
          IF Blank(call.entry.Action)
          THEN /\ call.publishes = 0
               /\ call.handed = <<>>
               /\ call.ret = "errAction"
               /\ call.verdict = "none"
          ELSE /\ call.publishes = 1
               /\ call.verdict \in PublishVerdicts
               /\ call.ret = call.verdict
    /\ Cardinality(call.published) <= call.records

\* a second Record call has returned the error of its one Publish call
C12_Witness ==
    /\ call.records = 2
    /\ call.stage = "returned"
    /\ call.publishes = 1
    /\ call.ret = "errPublish"

(***************************************************************************)
(* C15: every entry PubSubRecorder.Record hands to Publish has a non-empty  *)
(* ID, a CreatedDate that is not zero and the action of the caller, which   *)
(* is not blank; over every sequence of Record calls.                       *)
(***************************************************************************)
C15_PublishedAreNormalized ==
    /\ \A e \in call.published :
          /\ e.ID # ""
          /\ e.Action # <<>>
          /\ ~Blank(e.Action)
          /\ ~IsZero(e.CreatedDate)
    /\ \A i \in 1..Len(call.handed) :
          /\ call.handed[i] \in call.published
          /\ call.handed[i].Action = call.entry.Action

\* an entry without id and date was handed over with both filled in, after
\* an earlier entry had been handed over as it came
C15_Witness ==
    /\ call.records = 2
    /\ call.entry.ID = ""
    /\ IsZero(call.entry.CreatedDate)
    /\ Len(call.handed) = 1
    /\ call.handed[1].ID \in FreshIDs
    /\ call.handed[1].CreatedDate.loc = "UTC"
    /\ \E e \in call.published : e \in Entries

(***************************************************************************)
(* C13: normalizeEntry returns an error exactly when the action consists   *)
(* of nothing but white space (the empty action included), whatever the     *)
(* other fields are; it then returns the zero Entry and has called neither  *)
(* newID nor now.                                                           *)
(***************************************************************************)
C13_RejectsOnlyBlankAction ==
    \A i \in 1..call.applied :
        LET res == call.out[i] IN
        /\ res.err # "nil" <=> Blank(NormalizeArg(i).Action)
        /\ res.err # "nil" =>
              /\ res.entry = ZeroEntry
              /\ res.newIDs = 0
              /\ res.nows = 0

\* an entry complete but for its all-blank action has been rejected
C13_Witness ==
    /\ call.applied >= 1
    /\ call.input.Action = <<" ">>
    /\ call.input.ID = "id1"
    /\ ~IsZero(call.input.CreatedDate)
    /\ call.out[1].err = "errAction"
    /\ call.out[1].entry = ZeroEntry

(***************************************************************************)
(* C14: for an entry whose action is not blank normalizeEntry returns the   *)
(* entry with an empty id replaced by the non-empty value of newID and a    *)
(* zero CreatedDate replaced by the instant of now() in UTC, and with a set *)
(* id, a set CreatedDate and every other field as they were; applied to     *)
(* its own result it returns that result.                                   *)
(***************************************************************************)
C14_FillsAndIsIdempotent ==
    \A i \in 1..call.applied :
        LET in == NormalizeArg(i)
            res == call.out[i]
        IN  ~Blank(in.Action) =>
              /\ res.err = "nil"
              /\ res.entry.ID # ""
              /\ res.entry.ID = IF in.ID = "" THEN call.fresh[i] ELSE in.ID
              /\ ~IsZero(res.entry.CreatedDate)
              /\ res.entry.CreatedDate =
                    IF IsZero(in.CreatedDate)
                    THEN [instant |-> call.clock[i].instant, loc |-> "UTC"]
                    ELSE in.CreatedDate
              /\ res.entry.Action = in.Action
              /\ res.entry.RequestID = in.RequestID
              /\ i > 1 => res.entry = in

\* an entry without id and date has been normalized twice, the second time
\* with another id generated and another clock reading at hand
C14_Witness ==
    /\ call.applied = 2
    /\ call.input.ID = ""
    /\ IsZero(call.input.CreatedDate)
    /\ call.input.Action = <<" ", "a">>
    /\ call.fresh[1] # call.fresh[2]
    /\ call.clock[1] # call.clock[2]
    /\ call.clock[1].loc = "Local"
    /\ call.out[2].err = "nil"
    /\ call.out[2].entry = call.out[1].entry

(***************************************************************************)
(* C16: NewAuditTrail returns an error and no store for every table name    *)
(* with a character outside [a-zA-Z0-9_] and uses "audit_trail" for the     *)
(* empty name; so every constructed store holds a name made of allowed      *)
(* characters only, and neither Record nor EnsureTable ever fails on the    *)
(* table name.                                                              *)
(***************************************************************************)
AllowListed(name) == Len(name) > 0 /\ \A i \in 1..Len(name) : name[i] \in SafeChars

C16_InvalidTableNeverConstructed ==
    (call.fn = "NewAuditTrail" /\ call.stage # "new") =>
        /\ (\E i \in 1..Len(call.cfg.TableName) :
                call.cfg.TableName[i] \notin SafeChars)
           => /\ call.stage = "failed"
              /\ call.err # "nil"
              /\ call.audit = NilAuditTrail
        /\ (call.cfg.TableName = <<>> /\ call.cfg.DB # "nil")
           => /\ call.stage # "failed"
              /\ call.audit.table = <<"a", "_", "a">>
        /\ call.stage # "failed"
           => /\ call.err = "nil"
              /\ AllowListed(call.audit.table)
        /\ call.ret # "errSyntax"

\* a name that starts with an allowed character and holds a forbidden one
\* has been refused
C16_Witness ==
    /\ call.fn = "NewAuditTrail"
    /\ call.stage = "failed"
    /\ call.err = "errTable"
    /\ Len(call.cfg.TableName) = 2
    /\ call.cfg.TableName[1] \in SafeChars
    /\ call.cfg.TableName[2] \in UnsafeChars

(***************************************************************************)
(* C17: a Record that returns nil has executed exactly one INSERT on the    *)
(* store's table, over the eight columns id, request id, action, endpoint,  *)
(* request, response, created date, created by, with eight placeholders     *)
(* and eight bound values; a dollar store writes $1..$8 in ascending        *)
(* order, a question-mark store eight times "?", and the bound values are   *)
(* the fields of the normalised entry in column order whatever the style.   *)
(***************************************************************************)
Nullable(str) ==
    IF \A i \in 1..Len(str) : str[i] = " "
    THEN [String |-> <<>>, Valid |-> FALSE]
    ELSE [String |-> str, Valid |-> TRUE]

C18_NilOnlyAfterAccepted ==
    call.fn = "Publish" =>
        \A i \in 1..Len(call.sends) :
            call.sends[i].ret = "nil" => call.sends[i].transport = "accepted"

(***************************************************************************)
(* C19: a Shutdown that found the state running takes the cancel function   *)
(* of the runtime, which is never nil there, and has called it by the time  *)
(* it starts to wait; ctx plays no part before the wait: the only step of   *)
(* such a Shutdown that returns ctx.Err() is taken from the wait, after     *)
(* the cancellation.                                                        *)
(***************************************************************************)
C19_CancelBeforeWaitWhateverCtx ==
    [][\A t \in Callers :
          /\ (pc[t] = "idle" /\ pc'[t] = "sd_cancel") =>
                /\ runtime.cancel # nil
                /\ frame'[t].cancel = runtime.cancel
          /\ (pc[t] = "sd_cancel" /\ pc'[t] # "sd_cancel") =>
                /\ pc'[t] = "sd_wait"
                /\ runCtx'[frame[t].cancel] = "cancelled"
          /\ (/\ pc[t] \in {"sd_cancel", "sd_wait", "sd_close", "sd_reset"}
              /\ pc'[t] = "idle"
              /\ ret'.val = "ctxErr") =>
                /\ pc[t] = "sd_wait"
                /\ runCtx[frame[t].cancel] = "cancelled"]_vars

\* a Shutdown has returned ctx.Err() and the consumer it cancelled has
\* stopped all the same, with the runtime still initialized
C19_Witness ==
    /\ ret.val = "ctxErr"
    /\ ret.at = 236
    /\ runtime.initialized
    /\ runCtx[runtime.cancel] = "cancelled"
    /\ consumer[runtime.cancel] = "done"
    /\ \A t \in Callers : pc[t] = "idle"

(***************************************************************************)
(* C20: once the callback of a delivery has returned, onError has been      *)
(* invoked exactly once for it if the payload did not decode or             *)
(* AuditTrail.Record returned an error, and not at all if the insert        *)
(* succeeded.                                                               *)
(***************************************************************************)
C20_FailuresReachOnError ==
    \A m \in Msgs :
        CallbackReturned(m) =>
            callback[m].onError =
                IF ~Decodes(m) \/ callback[m].recordErr \notin {"nil", "none"}
                THEN 1 ELSE 0

(***************************************************************************)
(* C21: when consumer.Run has returned because its context was done (it     *)
(* returns nil then), the goroutine of InitWithOptions neither invokes      *)
(* OnConsumerError (line 170) nor logs "consumer stopped" (line 172); what  *)
(* it reports on those lines is always the error of the transport.          *)
(***************************************************************************)
C21_CancellationNotReported ==
    ret.at \in {170, 172, 175} =>
        /\ ret.val \in {"nil", "errTransport"}
        /\ ret.val = "nil" =>
              /\ ret.at = 175
              /\ \E c \in Cycles : consumer[c] = "done" /\ runCtx[c] = "cancelled"
        /\ ret.at \in {170, 172} => ret.val = "errTransport"

\* the goroutine has just ended on the cancellation of a Shutdown that is
\* waiting for it
C21_Witness ==
    /\ ret = [val |-> "nil", at |-> 175]
    /\ \E t \in Callers :
          /\ pc[t] = "sd_wait"
          /\ consumer[frame[t].cancel] = "done"
          /\ runCtx[frame[t].cancel] = "cancelled"
    /\ wg = 0

(***************************************************************************)
(* C22: the consume side does not normalise again: AuditTrail.Record,       *)
(* called by the handler of Consumer.Run, never rejects a decoded entry     *)
(* for its action, and the row it writes is the decoded entry as received,  *)
(* with no id and no created date generated.                                *)
(***************************************************************************)
C22_ConsumerPersistsAsReceived ==
    \A m \in Msgs :
        Decodes(m) =>
            /\ callback[m].recordErr # "errAction"
            /\ callback[m].recordErr = "nil" => BagIn(callback[m].entry, auditTable)

(***************************************************************************)
(* C23: the store does not deduplicate: when a message whose entry a        *)
(* previous delivery has inserted is delivered again and the database does  *)
(* not fail for a reason of its own, the handler inserts a second row for   *)
(* it and returns nil, so that the redelivery is acknowledged.              *)
(***************************************************************************)
C23_RedeliveryInsertsAgain ==
    [][\A m \in Msgs :
          (/\ msgs[m].state = "handler"
           /\ msgs[m].rows >= 1
           /\ msgs'[m].state = "settle"
           /\ callback'[m].recordErr # "errExec") =>
              /\ msgs'[m].rows = msgs[m].rows + 1
              /\ callback'[m].herr = "nil"]_vars

(***************************************************************************)
(* C24: runtime.mu is free whenever a caller is at sql.Open, NewAuditTrail  *)
(* or pubsub.NewClient, at the start of the goroutine, inside Publish, at   *)
(* cancel(), in the wait for the wait group or at the Close calls: the      *)
(* lock is taken and released within the steps that read or write the       *)
(* flags and references, so a caller inside Publish holds up nobody.        *)
(***************************************************************************)
C24_NoLockOverIO ==
    \A t \in Callers :
        pc[t] \in {"init_open", "init_start", "init_publish", "init_defer",
                   "rec_publish", "sd_cancel", "sd_wait", "sd_close", "sd_reset"}
            => mu = 0

\* two Record calls are inside Publish at the same time and the lock is free
C24_Witness ==
    /\ \A t \in Callers : pc[t] = "rec_publish"
    /\ mu = 0
    /\ runtime.initialized

(***************************************************************************)
(* C25: whenever the state is running (runtime.initialized) and no          *)
(* Shutdown call is past its check, the goroutine of the cycle the runtime  *)
(* records is running consumer.Run.                                         *)
(***************************************************************************)
C25_RunningHasLiveConsumer ==
    (/\ runtime.initialized
     /\ \A t \in Callers : pc[t] \notin {"sd_cancel", "sd_wait", "sd_close", "sd_reset"})
        => consumer[runtime.cancel] = "running"

(***************************************************************************)
(* C26: a Shutdown that found the state running and whose ctx never         *)
(* expires gets past its wait and reaches the reset, from which it returns  *)
(* nil with the state uninitialized, whatever the other callers do,         *)
(* provided consumer.Run returns once its context is cancelled.             *)
(***************************************************************************)
C26_ShutdownTerminates ==
    \A t \in Callers : (pc[t] = "sd_cancel") ~> (pc[t] = "sd_reset")

(***************************************************************************)
(* C27: a request that the skip predicate does not match gets one Record    *)
(* call, made by a task that is started when the handler chain has          *)
(* returned and the middleware returns: the middleware never waits for      *)
(* Record, the status the handlers wrote is the status of the request       *)
(* whatever Record returns, and an error of Record goes to onError once.    *)
(* A skipped request gets no task and no Record call.                       *)
(***************************************************************************)
C27_OneRecordAfterHandlers ==
    call.fn = "GinMiddleware" =>
        \A r \in Requests :
            LET q == call.reqs[r] IN
            /\ q.records <= 1
            /\ (q.path # "none" /\ q.path \in call.skip) =>
                  q.task = "none" /\ q.records = 0
            /\ q.task # "none" => q.stage = "returned"
            /\ (q.stage = "returned" /\ q.path \notin call.skip) =>
                  /\ q.task # "none"
                  /\ q.task \in {"record", "done"} <=> q.records = 1
            /\ q.status = q.written
            /\ q.onError = IF q.recordErr \in {"none", "nil"} THEN 0 ELSE 1

\* the middleware has returned for a request with the status of its handler
\* while the task of that request is inside Record; another request's
\* Record has failed, and a third kind, skipped, has none
C27_Witness ==
    /\ call.fn = "GinMiddleware"
    /\ \E r, q \in Requests :
          /\ call.reqs[r].stage = "returned"
          /\ call.reqs[r].status = 200
          /\ call.reqs[r].task = "record"
          /\ call.reqs[q].task = "done"
          /\ call.reqs[q].recordErr = "errPublish"
          /\ call.reqs[q].onError = 1
          /\ call.reqs[q].status = 200

(***************************************************************************)
(* C28: whenever the state is uninitialized and no caller is inside         *)
(* InitWithOptions or Shutdown, no consumer goroutine is running and every  *)
(* database handle and Pub/Sub client that was opened is closed.            *)
(***************************************************************************)
C28_UninitializedIsClean ==
    (/\ Uninitialized(runtime)
     /\ \A t \in Callers : pc[t] \in {"idle", "rec_publish"})
        => \A c \in Cycles :
              /\ consumer[c] # "running"
              /\ db[c] # "open"
              /\ client[c] # "open"

(***************************************************************************)
(* C29: as long as Consumer.Run is receiving on an active context, a        *)
(* delivered message whose payload decodes into an entry with an action     *)
(* that normalizeEntry accepts is eventually inserted and acknowledged,     *)
(* when rejected messages are delivered again and the database does not     *)
(* fail for ever.                                                           *)
(***************************************************************************)
C29_EventuallyPersisted ==
    \A m \in Msgs :
        /\ (/\ msgs[m].deliveries > 0
            /\ msgs[m].rows = 0
            /\ Decodes(m)
            /\ ~Blank(Unmarshal(msgs[m].data).entry.Action))
               ~> \/ msgs[m].rows > 0
                  \/ sub.run # "receiving"
                  \/ sub.ctx # "active"
        /\ (msgs[m].state = "settle" /\ callback[m].recordErr = "nil")
               ~> (msgs[m].state = "acked")


(***************************************************************************)
(* C30: a Record call running concurrently with Shutdown never publishes    *)
(* on a queue client that Shutdown has already closed: whenever a Record    *)
(* that passed the "not initialized" check performs its publish, the client *)
(* of the recorder it read is still open.                                   *)
(***************************************************************************)
C30_NoPublishOnClosedClient ==
    [][\A t \in Callers :
          (pc[t] = "rec_publish" /\ pc'[t] # "rec_publish") =>
              client[frame[t].recorder] = "open"]_vars

==============================================================================
